---------------------------- MODULE Spec2Model ----------------------------
(***************************************************************************)
(* A model of the rust-ldap BER codec (protocol/src/ber/common.rs) and of   *)
(* the LDAP client handle (client/src/lib.rs).                              *)
(*                                                                         *)
(* The type model, Payload::len, construct and calculate_len are taken      *)
(* from common.rs.  ber::encode and ber::decode are called by the client    *)
(* but their code is not part of the sources at hand; they are modelled     *)
(* from the wire format of the design document (sections 4.4, 4.5 and 6).   *)
(***************************************************************************)
EXTENDS Integers, Sequences, FiniteSets, TLC

VARIABLES
    fn,         \* harness: which pure function the behaviour applies
    arg,        \* harness: its arguments [v, class, number, cls, pllen]
    res,        \* harness: its outcome
    pc,         \* position of the behaviour
    tag,        \* codec: the Tag built through construct
    depth,      \* codec: nesting depth of tag
    wire,       \* codec: the bytes given to the decoder
    origin,     \* codec: "encode" when wire is the encoding of tag, "peer" otherwise
    decoded,    \* codec: outcome of ber::decode on wire
    msgid,      \* LDAP.msgid
    sent,       \* client: the msgid values passed to ber::encode, in order
    inbound,    \* client: bytes the peer has put on the stream, not yet read
    peer,       \* client: [writes, closed]: messages the peer wrote; whether it closed
    recvs,      \* client: number of LDAP::recv calls made
    last        \* client: what the last LDAP::send or LDAP::recv did and returned

vars == <<fn, arg, res, pc, tag, depth, wire, origin, decoded,
          msgid, sent, inbound, peer, recvs, last>>

----------------------------------------------------------------------------
(* Outcomes of a call: Ok(x), Err(e), or the process aborting.             *)

Ok(x)  == [kind |-> "Ok", val |-> x]
Err(e) == [kind |-> "Err", val |-> e]
Panic  == [kind |-> "Panic", val |-> "unreachable"]
None   == [kind |-> "None", val |-> "none"]

InvalidASN1 == "InvalidASN1"
IOError     == "IOError"

\* `x as u8` of an i64
AsU8(x) == x % 256

----------------------------------------------------------------------------
(* Type model                                                              *)

\* enum UniversalTypes: the discriminant of each variant (`ut as u8`)
UniversalTypes_as_u8(ut) ==
    CASE ut = "Eoc"              -> 0
      [] ut = "Boolean"          -> 1
      [] ut = "Integer"          -> 2
      [] ut = "BitString"        -> 3
      [] ut = "OctetString"      -> 4
      [] ut = "Null"             -> 5
      [] ut = "ObjectIdentifier" -> 6
      [] ut = "ObjectDescriptor" -> 7
      [] ut = "External"         -> 8
      [] ut = "Real"             -> 9
      [] ut = "Enumerated"       -> 10
      [] ut = "EmbeddedPdv"      -> 11
      [] ut = "Utf8String"       -> 12
      [] ut = "RelativeOid"      -> 13
      [] ut = "Sequence"         -> 16
      [] ut = "Set"              -> 17
      [] ut = "NumericString"    -> 18
      [] ut = "PrintableString"  -> 19
      [] ut = "T61String"        -> 20
      [] ut = "VideotexString"   -> 21
      [] ut = "Ia5String"        -> 22
      [] ut = "UtcTime"          -> 23
      [] ut = "GeneralizedTime"  -> 24
      [] ut = "GraphicString"    -> 25
      [] ut = "VisibleString"    -> 26
      [] ut = "GeneralString"    -> 27
      [] ut = "UniversalString"  -> 28
      [] ut = "CharacterString"  -> 29
      [] ut = "BmpString"        -> 30

\* UniversalTypes::from_u8: every unlisted code reaches unreachable!()
UniversalTypes_from_u8(v) ==
    CASE v = 0  -> Ok("Eoc")
      [] v = 1  -> Ok("Boolean")
      [] v = 2  -> Ok("Integer")
      [] v = 3  -> Ok("BitString")
      [] v = 4  -> Ok("OctetString")
      [] v = 5  -> Ok("Null")
      [] v = 6  -> Ok("ObjectIdentifier")
      [] v = 7  -> Ok("ObjectDescriptor")
      [] v = 8  -> Ok("External")
      [] v = 9  -> Ok("Real")
      [] v = 10 -> Ok("Enumerated")
      [] v = 11 -> Ok("EmbeddedPdv")
      [] v = 12 -> Ok("Utf8String")
      [] v = 13 -> Ok("RelativeOid")
      [] v = 16 -> Ok("Sequence")
      [] v = 17 -> Ok("Set")
      [] v = 18 -> Ok("NumericString")
      [] v = 19 -> Ok("PrintableString")
      [] v = 20 -> Ok("T61String")
      [] v = 21 -> Ok("VideotexString")
      [] v = 22 -> Ok("Ia5String")
      [] v = 23 -> Ok("UtcTime")
      [] v = 24 -> Ok("GeneralizedTime")
      [] v = 25 -> Ok("GraphicString")
      [] v = 26 -> Ok("VisibleString")
      [] v = 27 -> Ok("GeneralString")
      [] v = 28 -> Ok("UniversalString")
      [] v = 29 -> Ok("CharacterString")
      [] v = 30 -> Ok("BmpString")
      [] OTHER  -> Panic

\* enum Class.  Universal carries a UniversalTypes variant (ut), the other
\* three carry an i64 (number); the field a variant does not have is fixed.
Universal(ut)      == [class |-> "Universal", ut |-> ut, number |-> 0]
Application(n)     == [class |-> "Application", ut |-> "-", number |-> n]
ContextSpecific(n) == [class |-> "ContextSpecific", ut |-> "-", number |-> n]
Private(n)         == [class |-> "Private", ut |-> "-", number |-> n]

\* Class::construct; try! hands on the failure of from_u8, and a panic
\* inside from_u8 aborts the caller too.
Class_construct(class, number) ==
    CASE class = 0 ->
            LET r == UniversalTypes_from_u8(AsU8(number))
            IN  IF r.kind = "Ok" THEN Ok(Universal(r.val)) ELSE r
      [] class = 1 -> Ok(Application(number))
      [] class = 2 -> Ok(ContextSpecific(number))
      [] class = 3 -> Ok(Private(number))
      [] OTHER     -> Err(InvalidASN1)

\* enum ClassNumber: the discriminant of each variant
ClassNumber_as_u8(cn) ==
    CASE cn = "Universal"       -> 0
      [] cn = "Application"     -> 1
      [] cn = "ContextSpecific" -> 2
      [] cn = "Private"         -> 3

\* ClassNumber::from_u8
ClassNumber_from_u8(v) ==
    CASE v = 0 -> Ok("Universal")
      [] v = 1 -> Ok("Application")
      [] v = 2 -> Ok("ContextSpecific")
      [] v = 3 -> Ok("Private")
      [] OTHER -> Panic

\* enum Structure: the discriminant of each variant
Structure_as_u8(s) ==
    CASE s = "Primitive"   -> 0
      [] s = "Constructed" -> 1

\* Structure::from_u8
Structure_from_u8(v) ==
    CASE v = 0 -> Ok("Primitive")
      [] v = 1 -> Ok("Constructed")
      [] OTHER -> Panic

\* struct Type
Type(class, structure) == [class |-> class, structure |-> structure]

----------------------------------------------------------------------------
(* Payload, Tag, construct, calculate_len                                  *)

\* enum Payload
Primitive(bytes)  == [kind |-> "Primitive", bytes |-> bytes, tags |-> <<>>]
Constructed(tags) == [kind |-> "Constructed", bytes |-> <<>>, tags |-> tags]

RECURSIVE SumSizes(_)
\* the `for tag in v { l += tag.size }` loop of Payload::len
SumSizes(v) == IF v = <<>> THEN 0 ELSE v[1].size + SumSizes(Tail(v))

RECURSIVE SumLengths(_)
SumLengths(v) == IF v = <<>> THEN 0 ELSE v[1]._length + SumLengths(Tail(v))

\* Payload::len with the children's payload lengths summed (a mutation)
Payload_len_children_length(p) ==
    IF p.kind = "Primitive" THEN Len(p.bytes) ELSE SumLengths(p.tags)

\* Payload::len
Payload_len(p) ==
    IF p.kind = "Primitive" THEN Len(p.bytes) ELSE SumSizes(p.tags)

RECURSIVE TagNumberLoop(_, _)
\* the do-while of calculate_len over the tag number:
\* { len += 1; tag >>= 7; tag > 0 }
TagNumberLoop(len, t) ==
    LET len1 == len + 1
        t1   == t \div 128
    IN  IF t1 > 0 THEN TagNumberLoop(len1, t1) ELSE len1

RECURSIVE LengthLoop(_, _)
\* the do-while of calculate_len over the payload length:
\* { len >>= 8; length += 1; len > 0 }
LengthLoop(length, len) ==
    LET len1    == len \div 256
        length1 == length + 1
    IN  IF len1 > 0 THEN LengthLoop(length1, len1) ELSE length1

\* the type-byte part of calculate_len
TypeByteCount(class) ==
    IF class.class = "Universal"
    THEN 1
    ELSE IF class.number > 127 THEN TagNumberLoop(1, class.number) ELSE 1

\* calculate_len with the short length form taken up to 128 (a mutation)
calculate_len_short_form_128(tagtype, pllen) ==
    LET length0 == TypeByteCount(tagtype.class)
        length1 == IF pllen <= 128
                   THEN length0 + 1
                   ELSE LengthLoop(length0, pllen) + 1
    IN  length1 + pllen

\* calculate_len
calculate_len(tagtype, pllen) ==
    LET length0 == TypeByteCount(tagtype.class)
        length1 == IF pllen < 128
                   THEN length0 + 1
                   ELSE LengthLoop(length0, pllen) + 1
    IN  length1 + pllen

\* construct
construct(class, payload) ==
    LET tagtype == Type(class, IF payload.kind = "Primitive"
                               THEN "Primitive" ELSE "Constructed")
        pllen   == Payload_len(payload)
        taglen  == calculate_len(tagtype, pllen)
    IN  [_type |-> tagtype, _value |-> payload, _length |-> pllen, size |-> taglen]

----------------------------------------------------------------------------
(* Wire format: ber::encode and ber::decode                                 *)
(* (design document, sections 4.4, 4.5 and 6)                               *)

RECURSIVE Groups7(_)
\* the 7-bit groups of n, most significant first
Groups7(n) == IF n < 128 THEN <<n>> ELSE Append(Groups7(n \div 128), n % 128)

\* base-128 continuation bytes: 0x80 set on every byte except the last
Base128(n) ==
    LET g == Groups7(n)
    IN  [i \in 1..Len(g) |-> IF i < Len(g) THEN g[i] + 128 ELSE g[i]]

RECURSIVE BigEndian(_)
\* minimal big-endian representation of n
BigEndian(n) == IF n < 256 THEN <<n>> ELSE Append(BigEndian(n \div 256), n % 256)

\* type byte(s): (class << 6) | (structure << 5) | number-or-0x1F
EncodeType(t) ==
    LET cbits == ClassNumber_as_u8(t.class.class)
        sbit  == Structure_as_u8(t.structure)
        num   == IF t.class.class = "Universal"
                 THEN UniversalTypes_as_u8(t.class.ut)
                 ELSE t.class.number
        head  == cbits * 64 + sbit * 32
    IN  IF t.class.class = "Universal" \/ num <= 30
        THEN <<head + num>>
        ELSE <<head + 31>> \o Base128(num)

\* length byte(s): short form below 128, else 0x80|count and the big-endian value
EncodeLength(l) ==
    IF l < 128 THEN <<l>>
    ELSE LET be == BigEndian(l) IN <<128 + Len(be)>> \o be

RECURSIVE EncodeTag(_)
RECURSIVE EncodeTags(_)
\* the encoding of the child tags, in sequence order
EncodeTags(v) == IF v = <<>> THEN <<>> ELSE EncodeTag(v[1]) \o EncodeTags(Tail(v))

\* the encoding of one tag, depth first
EncodeTag(t) ==
    EncodeType(t._type) \o EncodeLength(t._length) \o
    (IF t._value.kind = "Primitive" THEN t._value.bytes ELSE EncodeTags(t._value.tags))

\* content bytes of the message identifier (non-negative, big-endian, with a
\* leading zero byte when the top bit would read as a sign)
IntegerBytes(n) ==
    LET be == BigEndian(n) IN IF be[1] >= 128 THEN <<0>> \o be ELSE be

\* ber::encode(tag, msgid): Sequence { Integer(msgid), tag }
ber_encode(t, id) ==
    Ok(EncodeTag(construct(Universal("Sequence"),
            Constructed(<<construct(Universal("Integer"), Primitive(IntegerBytes(id))), t>>))))

RECURSIVE ParseNumber(_, _, _)
\* base-128 continuation parsing from buf[i]: 7 bits per byte until a byte
\* without the continuation bit
ParseNumber(buf, i, acc) ==
    IF i > Len(buf)
    THEN [ok |-> FALSE, num |-> 0, next |-> i]
    ELSE LET v == acc * 128 + (buf[i] % 128)
         IN  IF buf[i] >= 128
             THEN ParseNumber(buf, i + 1, v)
             ELSE [ok |-> TRUE, num |-> v, next |-> i + 1]

RECURSIVE BigEndianLow(_)
\* the big-endian unsigned value of at most three bytes
BigEndianLow(bs) ==
    IF bs = <<>> THEN 0
    ELSE BigEndianLow(SubSeq(bs, 1, Len(bs) - 1)) * 256 + bs[Len(bs)]

\* the big-endian unsigned value of bs, for a buffer of cap < 2^24 bytes.  A
\* value above cap is reported as cap + 1: the caller fails on every length
\* above the buffer's, whatever it is
BigEndianValue(bs, cap) ==
    LET n   == Len(bs)
        low == BigEndianLow(SubSeq(bs, IF n > 3 THEN n - 2 ELSE 1, n))
    IN  IF (\E i \in 1..(n - 3) : bs[i] # 0) \/ low > cap THEN cap + 1 ELSE low

\* length byte(s) from buf[j]: [ok, length, last] with last the index of the
\* last length byte
ParseLength(buf, j) ==
    IF j > Len(buf)
    THEN [ok |-> FALSE, length |-> 0, last |-> j]
    ELSE IF buf[j] < 128
    THEN [ok |-> TRUE, length |-> buf[j], last |-> j]
    ELSE LET cnt == buf[j] - 128
         IN  IF cnt = 0 \/ j + cnt > Len(buf)
             THEN [ok |-> FALSE, length |-> 0, last |-> j]
             ELSE [ok |-> TRUE,
                   length |-> BigEndianValue(SubSeq(buf, j + 1, j + cnt), Len(buf)),
                   last |-> j + cnt]

RECURSIVE DecodeTag(_)
RECURSIVE DecodeTags(_)
\* child tags until the declared length is consumed
DecodeTags(buf) ==
    IF buf = <<>> THEN Ok(<<>>)
    ELSE LET r == DecodeTag(buf)
         IN  IF r.kind # "Ok" THEN r
             ELSE LET rest == DecodeTags(SubSeq(buf, r.val.size + 1, Len(buf)))
                  IN  IF rest.kind # "Ok" THEN rest ELSE Ok(<<r.val>> \o rest.val)

\* one tag from the front of buf; size is the number of bytes consumed
DecodeTag(buf) ==
    IF buf = <<>> THEN Err(InvalidASN1)
    ELSE
    LET b   == buf[1]
        cn  == ClassNumber_from_u8(b \div 64)
        st  == Structure_from_u8((b \div 32) % 2)
        low == b % 32
        nr  == IF low = 31 THEN ParseNumber(buf, 2, 0)
               ELSE [ok |-> TRUE, num |-> low, next |-> 2]
    IN
    IF cn.kind # "Ok" THEN cn
    ELSE IF st.kind # "Ok" THEN st
    ELSE IF ~nr.ok THEN Err(InvalidASN1)
    ELSE
    LET cls == Class_construct(ClassNumber_as_u8(cn.val), nr.num)
    IN
    IF cls.kind # "Ok" THEN cls
    ELSE
    LET lr == ParseLength(buf, nr.next)
    IN
    IF ~lr.ok THEN Err(InvalidASN1)
    ELSE IF lr.last + lr.length > Len(buf) THEN Err(InvalidASN1)
    ELSE
    LET body == SubSeq(buf, lr.last + 1, lr.last + lr.length)
        pl   == IF st.val = "Primitive" THEN Ok(Primitive(body))
                ELSE LET ch == DecodeTags(body)
                     IN  IF ch.kind = "Ok" THEN Ok(Constructed(ch.val)) ELSE ch
    IN
    IF pl.kind # "Ok" THEN pl
    ELSE Ok([_type |-> Type(cls.val, st.val), _value |-> pl.val,
             _length |-> lr.length, size |-> lr.last + lr.length])

\* ber::decode(&buf): the first tag of the buffer
ber_decode(buf) == DecodeTag(buf)

----------------------------------------------------------------------------
(* Bounds and input sets                                                   *)

MaxTagNumber  == 130    \* calculate_len: Application numbers -1..MaxTagNumber
MaxPayloadLen == 260    \* calculate_len: payload lengths 0..MaxPayloadLen
MaxNumber     == 300    \* Class::construct: numbers -MaxNumber..MaxNumber
MaxClass      == 5      \* Class::construct: class selectors 0..MaxClass
MaxDepth      == 1      \* codec: nesting depth of the tags built
MaxBufLen     == 3      \* codec: length of the peer buffers decoded
MaxSends      == 3      \* client: number of LDAP::send calls
MaxPartial    == 3      \* client: partial reads and writes of 1..MaxPartial bytes
MaxPeerWrites == 2      \* client: number of messages the peer writes
MaxRecvs      == 3      \* client: number of LDAP::recv calls
BufSize       == 500    \* client: `let mut buf = [0; 500]`

\* the bytes i, i+1, ... of a payload of n bytes
Bytes(n) == [i \in 1..n |-> i % 256]

\* large tag numbers and payload lengths around the 7-bit and 8-bit group edges
BigTagNumbers  == {16383, 16384, 2097151, 2097152, 268435455, 268435456}
BigPayloadLens == {65535, 65536, 16777215, 16777216}

CalcClasses ==
    {Universal("OctetString"), Universal("Sequence")}
    \cup {Application(n) : n \in (-1..MaxTagNumber) \cup BigTagNumbers}
    \cup {ContextSpecific(n) : n \in {0, 30, 31, 127, 128} \cup BigTagNumbers}
    \cup {Private(n) : n \in {0, 127, 128, 16384}}

CalcLens == (0..MaxPayloadLen) \cup BigPayloadLens

ArgIdle == [v |-> 0, class |-> 0, number |-> 0,
            tagtype |-> Type(Universal("Eoc"), "Primitive"), pllen |-> 0]

FromU8Args == {[ArgIdle EXCEPT !.v = v] : v \in 0..255}

ClassConstructArgs ==
    {[ArgIdle EXCEPT !.class = c, !.number = n] :
        c \in (0..MaxClass) \cup {255},
        n \in {-65536, 65536, 65550} \cup (-MaxNumber..MaxNumber)}

CalculateLenArgs ==
    {[ArgIdle EXCEPT !.tagtype = Type(c, s), !.pllen = l] :
        c \in CalcClasses, s \in {"Primitive", "Constructed"}, l \in CalcLens}

\* classes and payloads of the tags built through construct
BuildClasses ==
    {Universal("OctetString"), Universal("Sequence"), Universal("Boolean")}
    \cup {Application(n) : n \in {0, 30, 31, 127, 128, 16383, 16384}}
    \cup {ContextSpecific(n) : n \in {3, 31}}
    \cup {Private(n) : n \in {128}}

BuildPayloads == {Primitive(Bytes(n)) : n \in {0, 1, 3, 127, 128, 200}}

\* sibling tags placed before or after the wrapped tag
Siblings ==
    {<<>>,
     <<construct(Universal("OctetString"), Primitive(Bytes(200)))>>,
     <<construct(Universal("Integer"), Primitive(Bytes(1)))>>}

PeerBytes == {0, 1, 2, 4, 14, 15, 31, 48, 95, 128, 129, 255}

RECURSIVE SeqsUpTo(_, _)
SeqsUpTo(S, n) ==
    IF n = 0 THEN {<<>>}
    ELSE LET shorter == SeqsUpTo(S, n - 1)
         IN  shorter \cup {Append(q, x) : q \in shorter, x \in S}

PeerBuffers == SeqsUpTo(PeerBytes, MaxBufLen)

\* tags the client sends
SendTags ==
    {construct(Universal("Boolean"), Primitive(<<255>>)),
     construct(Universal("OctetString"), Primitive(Bytes(3))),
     construct(Application(0),
               Constructed(<<construct(Universal("Integer"), Primitive(<<3>>)),
                             construct(Universal("OctetString"), Primitive(Bytes(2)))>>))}

\* messages the peer puts on the stream: two short ones and one that does
\* not fit the read buffer
PeerMessages ==
    {EncodeTag(construct(Universal("OctetString"), Primitive(<<65, 66, 67>>))),
     ber_encode(construct(Universal("Boolean"), Primitive(<<255>>)), 1).val,
     EncodeTag(construct(Universal("OctetString"), Primitive([i \in 1..BufSize |-> 65])))}

----------------------------------------------------------------------------
(* Values of the variables a specification does not use                    *)

FnIdle     == fn = "-" /\ arg = ArgIdle /\ res = None
CodecIdle  == tag = <<>> /\ depth = 0 /\ wire = <<>> /\ origin = "-" /\ decoded = None
LastIdle   == [op |-> "-", buflen |-> 0, written |-> 0, received |-> <<>>, result |-> None]
PeerIdle   == [writes |-> 0, closed |-> FALSE]
ClientIdle == msgid = 0 /\ sent = <<>> /\ inbound = <<>> /\ peer = PeerIdle /\ recvs = 0
              /\ last = LastIdle

fnVars     == <<fn, arg, res>>
codecVars  == <<tag, depth, wire, origin, decoded>>
clientVars == <<msgid, sent, inbound, peer, recvs, last>>

----------------------------------------------------------------------------
(* SpecFn: the pure functions applied to inputs drawn in Init               *)

InitFn ==
    /\ pc = "call"
    /\ \/ fn = "from_u8" /\ arg \in FromU8Args
       \/ fn = "Class_construct" /\ arg \in ClassConstructArgs
       \/ fn = "calculate_len" /\ arg \in CalculateLenArgs
    /\ res = None
    /\ CodecIdle /\ ClientIdle

CallFromU8 ==
    /\ pc = "call" /\ fn = "from_u8"
    /\ res' = UniversalTypes_from_u8(arg.v)
    /\ pc' = "done"
    /\ UNCHANGED <<fn, arg, codecVars, clientVars>>

CallClassConstruct ==
    /\ pc = "call" /\ fn = "Class_construct"
    /\ res' = Class_construct(arg.class, arg.number)
    /\ pc' = "done"
    /\ UNCHANGED <<fn, arg, codecVars, clientVars>>

CallCalculateLen ==
    /\ pc = "call" /\ fn = "calculate_len"
    /\ res' = Ok(calculate_len(arg.tagtype, arg.pllen))
    /\ pc' = "done"
    /\ UNCHANGED <<fn, arg, codecVars, clientVars>>

NextFn == CallFromU8 \/ CallClassConstruct \/ CallCalculateLen

SpecFn == InitFn /\ [][NextFn]_vars

----------------------------------------------------------------------------
(* SpecCodec: tags built through construct, encoded and decoded; and peer   *)
(* buffers decoded                                                         *)

InitCodec ==
    /\ pc = "start"
    /\ CodecIdle /\ FnIdle /\ ClientIdle

\* construct(class, Payload::Primitive(bytes))
ConstructPrimitive ==
    /\ pc = "start"
    /\ \E c \in BuildClasses, p \in BuildPayloads :
          tag' = construct(c, p)
    /\ depth' = 0
    /\ pc' = "built"
    /\ UNCHANGED <<wire, origin, decoded, fnVars, clientVars>>

\* construct(class, Payload::Constructed(children)), the children being the
\* tag built so far and its siblings
ConstructConstructed ==
    /\ pc = "built"
    /\ depth < MaxDepth
    /\ \E c \in BuildClasses, l \in Siblings, r \in Siblings :
          /\ l = <<>> \/ r = <<>>
          /\ tag' = construct(c, Constructed(l \o <<tag>> \o r))
    /\ depth' = depth + 1
    /\ UNCHANGED <<pc, wire, origin, decoded, fnVars, clientVars>>

\* the single tag rendered in the wire format
EncodeSingle ==
    /\ pc = "built"
    /\ wire' = EncodeTag(tag)
    /\ origin' = "encode"
    /\ pc' = "encoded"
    /\ UNCHANGED <<tag, depth, decoded, fnVars, clientVars>>

\* a buffer whose content the peer chose
PeerBuffer ==
    /\ pc = "start"
    /\ wire' \in PeerBuffers
    /\ origin' = "peer"
    /\ pc' = "encoded"
    /\ UNCHANGED <<tag, depth, decoded, fnVars, clientVars>>

\* ber::decode on the buffer
Decode ==
    /\ pc = "encoded"
    /\ decoded' = ber_decode(wire)
    /\ pc' = "decoded"
    /\ UNCHANGED <<tag, depth, wire, origin, fnVars, clientVars>>

NextCodec ==
    ConstructPrimitive \/ ConstructConstructed \/ EncodeSingle \/ PeerBuffer \/ Decode

SpecCodec == InitCodec /\ [][NextCodec]_vars

----------------------------------------------------------------------------
(* Spec: the LDAP handle after LDAP::connect                                *)

\* LDAP::connect returned Ok: msgid: 0
Init ==
    /\ pc = "open"
    /\ msgid = 0
    /\ sent = <<>>
    /\ inbound = <<>>
    /\ peer = PeerIdle
    /\ recvs = 0
    /\ last = LastIdle
    /\ FnIdle /\ CodecIdle

\* outcomes of stream.write(buf): an error, or the number of bytes accepted
WriteOutcomes(buf) ==
    {Err(IOError)} \cup {Ok(n) : n \in {k \in 1..Len(buf) : k <= MaxPartial \/ k = Len(buf)}}

\* LDAP::send
Send ==
    /\ pc = "open"
    /\ Len(sent) < MaxSends
    /\ \E t \in SendTags :
          LET tagbuf == ber_encode(t, msgid)
          IN  /\ sent' = Append(sent, msgid)
              /\ \E w \in WriteOutcomes(tagbuf.val) :
                    last' = [op |-> "send", buflen |-> Len(tagbuf.val),
                             written |-> IF w.kind = "Ok" THEN w.val ELSE 0,
                             received |-> <<>>,
                             result |-> IF w.kind = "Ok" THEN Ok("()") ELSE w]
    /\ UNCHANGED <<pc, msgid, inbound, peer, recvs, fnVars, codecVars>>

\* the peer writes one message to the connection, whether or not the bytes
\* it wrote before have been read
PeerSends ==
    /\ pc = "open"
    /\ ~peer.closed
    /\ peer.writes < MaxPeerWrites
    /\ \E m \in PeerMessages : inbound' = inbound \o m
    /\ peer' = [peer EXCEPT !.writes = @ + 1]
    /\ UNCHANGED <<pc, msgid, sent, recvs, last, fnVars, codecVars>>

\* the peer closes the connection; the bytes it wrote stay readable
PeerCloses ==
    /\ pc = "open"
    /\ ~peer.closed
    /\ peer' = [peer EXCEPT !.closed = TRUE]
    /\ UNCHANGED <<pc, msgid, sent, inbound, recvs, last, fnVars, codecVars>>

Min(a, b) == IF a < b THEN a ELSE b

\* outcomes of a stream.read(&mut buf) that returns Ok: with bytes unread,
\* at least one of them and at most what the buffer holds; with none unread
\* and the connection closed by the peer, 0
ReadAmounts(avail) ==
    IF avail = 0 THEN {0}
    ELSE {n \in 1..Min(BufSize, avail) : n <= MaxPartial \/ n = Min(BufSize, avail)}

\* the 500-byte buffer after a read of n bytes: zero beyond the bytes read
ReadBuffer(data, n) == [i \in 1..BufSize |-> IF i <= n THEN data[i] ELSE 0]

\* LDAP::recv
Recv ==
    /\ pc = "open"
    /\ recvs < MaxRecvs
    /\ recvs' = recvs + 1
    /\ \/ /\ last' = [op |-> "recv", buflen |-> 0, written |-> 0,
                      received |-> <<>>, result |-> Err(IOError)]
          /\ UNCHANGED inbound
       \/ /\ inbound # <<>> \/ peer.closed
          /\ \E readamount \in ReadAmounts(Len(inbound)) :
             LET buf == ReadBuffer(inbound, readamount)
             IN  /\ last' = [op |-> "recv", buflen |-> 0, written |-> 0,
                             received |-> SubSeq(inbound, 1, readamount),
                             result |-> ber_decode(buf)]
                 /\ inbound' = SubSeq(inbound, readamount + 1, Len(inbound))
    /\ UNCHANGED <<pc, msgid, sent, peer, fnVars, codecVars>>

Next == Send \/ PeerSends \/ PeerCloses \/ Recv

Spec == Init /\ [][Next]_vars

----------------------------------------------------------------------------
(* The byte counts of the design document, section 4.2, in closed form      *)

DefinedCodes == (0..13) \cup (16..30)

\* number of bits of n >= 1
BitLength(n) == CHOOSE k \in 1..30 : 2^(k - 1) <= n /\ n < 2^k

\* number of bytes of the minimal big-endian representation of n >= 1
ByteLength(n) == CHOOSE k \in 1..4 : (n \div 256^(k - 1)) \in 1..255

\* T: 1 for Universal; else 1 when n <= 127 and 1 + ceil(bit_length(n)/7) above
SpecTypeBytes(class) ==
    IF class.class = "Universal" \/ class.number <= 127
    THEN 1
    ELSE 1 + ((BitLength(class.number) + 6) \div 7)

\* L: 1 below 128, else 1 + the bytes of the minimal big-endian representation
SpecLengthBytes(l) == IF l < 128 THEN 1 ELSE 1 + ByteLength(l)

\* a tag has been built through construct
Built == pc = "built" \/ (pc \in {"encoded", "decoded"} /\ origin = "encode")

----------------------------------------------------------------------------
(* Claims                                                                  *)

\* C1: for every Tag t built through construct, decoding the encoding of the
\* single tag t yields a Tag equal to t in type, _length, _value and size.
C1_RoundTrip ==
    (pc = "decoded" /\ origin = "encode") =>
        /\ decoded.kind = "Ok"
        /\ decoded.val._type = tag._type
        /\ decoded.val._length = tag._length
        /\ decoded.val._value = tag._value
        /\ decoded.val.size = tag.size

\* C2: decoding any byte buffer ends in a Tag or in a typed ASN1Error and
\* never reaches an unreachable!() arm.
C2_DecodeNeverAborts ==
    pc = "decoded" => decoded.kind \in {"Ok", "Err"}

\* C3: UniversalTypes::from_u8(v) fails with InvalidASN1 for every v outside
\* the defined codes (14, 15, 31, ...) and succeeds with the type whose
\* numeric value is v for the 29 defined codes.
C3_FromU8Typed ==
    (pc = "done" /\ fn = "from_u8") =>
        IF arg.v \in DefinedCodes
        THEN res.kind = "Ok" /\ UniversalTypes_as_u8(res.val) = arg.v
        ELSE res.kind = "Err" /\ res.val = InvalidASN1

\* C4: Class::construct(class, number) returns Ok exactly when class is 1, 2
\* or 3 (carrying number unchanged), or class is 0 and number itself is a
\* defined universal code (yielding that type); otherwise Err(InvalidASN1).
C4_ClassConstructExact ==
    (pc = "done" /\ fn = "Class_construct") =>
        CASE arg.class = 0 /\ arg.number \in DefinedCodes ->
                /\ res.kind = "Ok"
                /\ res.val.class = "Universal"
                /\ UniversalTypes_as_u8(res.val.ut) = arg.number
          [] arg.class = 1 -> res.kind = "Ok" /\ res.val = Application(arg.number)
          [] arg.class = 2 -> res.kind = "Ok" /\ res.val = ContextSpecific(arg.number)
          [] arg.class = 3 -> res.kind = "Ok" /\ res.val = Private(arg.number)
          [] OTHER -> res.kind = "Err" /\ res.val = InvalidASN1

RECURSIVE TotalSizes(_, _)
\* the total sizes of the first n tags of ch, added up
TotalSizes(ch, n) == IF n = 0 THEN 0 ELSE TotalSizes(ch, n - 1) + ch[n].size

RECURSIVE TagInvariant(_)
\* _length is the payload's own length and size is the type bytes plus the
\* length-field bytes plus _length, at this node and at every node below it
TagInvariant(t) ==
    /\ t._length = IF t._value.kind = "Primitive"
                   THEN Len(t._value.bytes)
                   ELSE TotalSizes(t._value.tags, Len(t._value.tags))
    /\ t.size = SpecTypeBytes(t._type.class) + SpecLengthBytes(t._length) + t._length
    /\ t._value.kind = "Constructed" =>
          \A i \in 1..Len(t._value.tags) : TagInvariant(t._value.tags[i])

\* C5: every Tag returned by construct satisfies the Tag invariant at every
\* node of the tree: _length equals the payload's own length (for
\* Constructed the sum of each child's total size) and size equals the type
\* byte count plus the length-field byte count plus _length.
C5_TagInvariant == Built => TagInvariant(tag)

\* the Sequence of two primitive Octet Strings with payloads of 3 and 200
\* bytes has been built, with _length 5 + 203 = 208
C5_Witness ==
    /\ pc = "built" /\ depth = 1
    /\ tag._type = Type(Universal("Sequence"), "Constructed")
    /\ Len(tag._value.tags) = 2
    /\ tag._value.tags[1]._type = Type(Universal("OctetString"), "Primitive")
    /\ tag._value.tags[1]._length = 3
    /\ tag._value.tags[2]._type = Type(Universal("OctetString"), "Primitive")
    /\ tag._value.tags[2]._length = 200
    /\ tag._length = 208
    /\ tag.size = 211

\* C6: calculate_len(type, pllen) = T + L + pllen, with T and L as in section
\* 4.2; pllen = 127 gives a 1-byte length field and pllen = 128 a 2-byte one.
C6_CalculateLen ==
    (pc = "done" /\ fn = "calculate_len") =>
        LET T == SpecTypeBytes(arg.tagtype.class)
        IN  /\ res.val = T + SpecLengthBytes(arg.pllen) + arg.pllen
            /\ arg.pllen = 127 => res.val - T - arg.pllen = 1
            /\ arg.pllen = 128 => res.val - T - arg.pllen = 2

\* calculate_len has returned for Application(128) and a payload of 128
\* bytes: three type bytes, two length bytes
C6_Witness ==
    /\ pc = "done" /\ fn = "calculate_len"
    /\ arg.tagtype.class = Application(128)
    /\ arg.pllen = 128
    /\ res.val = 133

\* C7: on one connection the msgid values passed to the encoder are strictly
\* increasing from one send to the next.
C7_MsgidIncreasing ==
    \A i \in 1..(Len(sent) - 1) : sent[i] < sent[i + 1]

\* C8: whenever LDAP::send returns Ok(()), every byte of the encoded message
\* has been written to the stream.
C8_SendAllOrNothing ==
    (last.op = "send" /\ last.result.kind = "Ok") => last.written = last.buflen

\* C9: LDAP::recv returns Ok(tag) only when the bytes actually read contain
\* one complete TLV and tag is decoded from those bytes alone.
C9_RecvNeverPartial ==
    (last.op = "recv" /\ last.result.kind = "Ok") =>
        /\ last.result.val.size <= Len(last.received)
        /\ LET own == ber_decode(last.received)
           IN  own.kind = "Ok" /\ own.val = last.result.val

\* C10: for every Tag built by construct, size is the byte footprint of the
\* tag on the wire, and the type-byte count of calculate_len is the number
\* of type bytes of the wire format.
C10_SizeIsWireFootprint ==
    Built =>
        /\ TypeByteCount(tag._type.class) = Len(EncodeType(tag._type))
        /\ tag.size = Len(EncodeTag(tag))

=============================================================================
